---- MODULE Spec2Model ----
(***************************************************************************)
(* Model of the kvasir game engine context (src/src/engine.rs), its static *)
(* layer (src/src/staticlayer.rs) and the frame loop of the image test     *)
(* (src/examples/test-image.rs).                                           *)
(*                                                                         *)
(* f32 values are modelled as exact rationals n/d extended with the IEEE   *)
(* specials +inf and NaN, so that a division by zero yields what the       *)
(* hardware yields instead of stopping the model.                          *)
(***************************************************************************)
EXTENDS Integers, Sequences, FiniteSets, TLC

VARIABLES
    running,        \* Engine.running : Cell<bool>
    core_r,         \* Engine.core.r  : size <<sx, sy>> of the window rectangle
    fbsize,         \* Engine.framebuffer.size : <<x, y>>, fixed at construction
    gfx,            \* gpu::Graphics : bindings, uniforms, target contents, draw log
    lastOp,         \* the engine operation that produced this state
    pc,             \* position of main() in its frame loop
    frameCalls,     \* calls main() and the engine issued in the current frame
    failing,        \* allocations the graphics collaborator refuses
    newResult,      \* outcome of Engine::new / StaticLayer::new_from_mat
    arg,            \* input of a pure function under check
    res             \* its result

vars == <<running, core_r, fbsize, gfx, lastOp, pc, frameCalls,
          failing, newResult, arg, res>>

----------------------------------------------------------------------------
(* Bounds *)

MaxWin == 2          \* window width and height range over 0 .. MaxWin
MaxLayers == 2       \* a layer sequence holds at most MaxLayers layers
MaxEvents == 1       \* events one flush delivers
MaxDim == 4          \* dimensions of the letterbox function under check
MaxTileIndex == 1030 \* tile indices the map texture may hold
TcTiles == 2         \* extent of the tile-space coordinate, in tiles
FracDen == 3         \* tile-space coordinates are multiples of 1/FracDen

----------------------------------------------------------------------------
(* f32 arithmetic *)

RECURSIVE GCD(_, _)
GCD(a, b) == IF b = 0 THEN a ELSE GCD(b, a % b)

Fin(n, d) == LET g == GCD(n, d) IN [k |-> "fin", n |-> n \div g, d |-> d \div g]
Inf == [k |-> "inf", n |-> 1, d |-> 0]
NaN == [k |-> "nan", n |-> 0, d |-> 0]
One == Fin(1, 1)

\* `x as f32` for a non-negative integer x
AsF32(x) == Fin(x, 1)

\* a / b on f32 (operands are never negative here)
FDiv(a, b) ==
    IF a.k = "nan" \/ b.k = "nan" THEN NaN
    ELSE IF a.k = "inf" THEN (IF b.k = "inf" THEN NaN ELSE Inf)
    ELSE IF b.k = "inf" THEN Fin(0, 1)
    ELSE IF b.n = 0 THEN (IF a.n = 0 THEN NaN ELSE Inf)
    ELSE Fin(a.n * b.d, a.d * b.n)

\* a > b on f32: any comparison with NaN is false
FGt(a, b) ==
    IF a.k = "nan" \/ b.k = "nan" THEN FALSE
    ELSE IF a.k = "inf" THEN b.k # "inf"
    ELSE IF b.k = "inf" THEN FALSE
    ELSE a.n * b.d > b.n * a.d

Min(a, b) == IF a < b THEN a ELSE b

----------------------------------------------------------------------------
(* Pixels *)

Pixels(size) == (0 .. size[1] - 1) \X (0 .. size[2] - 1)
Grid == Pixels(<<MaxWin, MaxWin>>)
Blank == <<0, 0, 0>>

Sizes == (0 .. MaxWin) \X (0 .. MaxWin)
WinSizes == (1 .. MaxWin) \X (1 .. MaxWin)
FbSizes == {<<2, 1>>, <<1, 1>>, <<1, 2>>}
Images == {1, 2}
Failures == {"framebuffer", "layer_shader", "final_shader", "static_shader",
             "map_shader", "quad_vertexbuffer", "layer_framebuffer", "texture"}

SeqsUpTo(S, n) == UNION {[1 .. m -> S] : m \in 0 .. n}

----------------------------------------------------------------------------
(* Engine::new and StaticLayer::new_from_mat *)

\* Engine::new: the six allocations in order, each `Err(_) => return
\* Err(EngineError::Generic)`; the window is created in the Ok value only
EngineNew(fail, winsize, size) ==
    IF \E a \in {"framebuffer", "layer_shader", "final_shader", "static_shader",
                 "map_shader", "quad_vertexbuffer"} : a \in fail
    THEN [status |-> "Err(EngineError::Generic)", window |-> FALSE,
          running |-> FALSE, r |-> <<0, 0>>, size |-> size]
    ELSE [status |-> "Ok", window |-> TRUE, running |-> TRUE, r |-> winsize,
          size |-> size]

\* StaticLayer::new_from_mat: both allocations are unwrapped with expect();
\* otherwise the image is drawn once through static_shader into the layer's
\* own framebuffer, one texel per pixel
NewFromMat(fail, image, size) ==
    IF "layer_framebuffer" \in fail \/ "texture" \in fail
    THEN [status |-> "panic", draws |-> 0, framebuffer |-> <<>>]
    ELSE [status |-> "Ok", draws |-> 1,
          framebuffer |-> [p \in Pixels(size) |-> <<image, p[1], p[2]>>]]

\* StaticLayer::framebuffer()
LayerFramebuffer(l, size) == NewFromMat({}, l, size).framebuffer

----------------------------------------------------------------------------
(* gpu::Graphics *)

BindTarget(g, t) == [g EXCEPT !.target = t]
BindTexture(g, tex) == [g EXCEPT !.texture = tex]
BindShader(g, s) == [g EXCEPT !.shader = s]
SetUniformTexture(g, v) == [g EXCEPT !.u_texture = v]
SetUniformScale(g, v) == [g EXCEPT !.u_scale = v]
BindVertexBuffer(g, vb) == [g EXCEPT !.vertexbuffer = vb]

Texels(g, size) ==
    IF g.texture = "framebuffer" THEN g.fb ELSE LayerFramebuffer(g.texture[2], size)

\* layer_vs / layer_fs: the unit quad covers the whole target, f_tex = v_pos
LayerBlit(g, size) == [p \in Pixels(size) |-> Texels(g, size)[p]]

\* final_vs: gl_Position = (u_scale.x * (-1 + 2 v.x), u_scale.y * (1 - 2 v.y)).
\* A window pixel is written when its centre lies in the scaled quad.
Covered(p, r, s) ==
    LET xn == 2 * p[1] + 1 - r[1]
        yn == 2 * p[2] + 1 - r[2]
    IN  /\ s.x.k = "fin" /\ s.y.k = "fin"
        /\ s.x.n > 0 /\ s.y.n > 0
        /\ 0 - s.x.n * r[1] <= xn * s.x.d /\ xn * s.x.d < s.x.n * r[1]
        /\ 0 - s.y.n * r[2] <= yn * s.y.d /\ yn * s.y.d < s.y.n * r[2]

\* final_vs / final_fs: f_tex = v_pos, so the texel is found by undoing the
\* scale (and the Y swap) on the pixel centre
FinalTexel(p, r, s, size) ==
    LET xn == 2 * p[1] + 1 - r[1]
        yn == 2 * p[2] + 1 - r[2]
        col == (size[1] * (xn * s.x.d + r[1] * s.x.n)) \div (2 * r[1] * s.x.n)
        row == (size[2] * (r[2] * s.y.n - yn * s.y.d)) \div (2 * r[2] * s.y.n)
    IN  <<Min(size[1] - 1, col), Min(size[2] - 1, row)>>

FinalBlit(g, size, r) ==
    [p \in Grid |->
        IF p \in Pixels(r) /\ Covered(p, r, g.u_scale)
        THEN Texels(g, size)[FinalTexel(p, r, g.u_scale, size)]
        ELSE g.win[p]]

\* draw_triangle_fan(4) on the bound target with the bound shader and texture.
\* No blending is enabled anywhere in the engine, so the fragment output
\* replaces the pixels the quad covers.
DrawTriangleFan(g, size, r) ==
    LET d == [target |-> g.target, texture |-> g.texture, shader |-> g.shader]
        h == [g EXCEPT !.draws = Append(g.draws, d)]
    IN  IF g.target = "window"
        THEN [h EXCEPT !.win = FinalBlit(g, size, r)]
        ELSE [h EXCEPT !.fb = LayerBlit(g, size)]

\* a window that changes size gets a new surface, its contents undefined
ResizeSurface(g, old, new) ==
    IF old = new THEN g ELSE [g EXCEPT !.win = [p \in Grid |-> Blank]]

\* the context right after Engine::new: nothing bound, nothing drawn
NewGraphics(size) ==
    [target |-> "none", texture |-> "none", shader |-> "none",
     vertexbuffer |-> "none", u_texture |-> 0,
     u_scale |-> [x |-> Fin(0, 1), y |-> Fin(0, 1)],
     fb |-> [p \in Pixels(size) |-> Blank], win |-> [p \in Grid |-> Blank],
     draws |-> <<>>]

----------------------------------------------------------------------------
(* Engine *)

\* RenderScale from the aspect the window had at construction in main(),
\* where it equals the framebuffer's, instead of the current rectangle
RenderScaleCached(size, r) ==
    LET fb_aspect  == FDiv(AsF32(size[1]), AsF32(size[2]))
        win_aspect == fb_aspect
    IN  IF FGt(win_aspect, fb_aspect)
        THEN [x |-> FDiv(fb_aspect, win_aspect), y |-> One]
        ELSE [x |-> One, y |-> FDiv(win_aspect, fb_aspect)]

\* RenderScale with the two branches exchanged
RenderScaleSwapped(size, r) ==
    LET fb_aspect  == FDiv(AsF32(size[1]), AsF32(size[2]))
        win_aspect == FDiv(AsF32(r[1]), AsF32(r[2]))
    IN  IF FGt(fb_aspect, win_aspect)
        THEN [x |-> FDiv(fb_aspect, win_aspect), y |-> One]
        ELSE [x |-> One, y |-> FDiv(win_aspect, fb_aspect)]

\* Engine::render: fb_aspect, win_aspect and scale
RenderScale(size, r) ==
    LET fb_aspect  == FDiv(AsF32(size[1]), AsF32(size[2]))
        win_aspect == FDiv(AsF32(r[1]), AsF32(r[2]))
    IN  IF FGt(win_aspect, fb_aspect)
        THEN [x |-> FDiv(fb_aspect, win_aspect), y |-> One]
        ELSE [x |-> One, y |-> FDiv(win_aspect, fb_aspect)]

\* the body of `for layer in layers.iter()`
DrawLayer(g, layer, size, r) ==
    LET g1 == BindTexture(g, <<"layer", layer>>)
        g2 == BindShader(g1, "layer_shader")
        g3 == SetUniformTexture(g2, 0)
        g4 == BindVertexBuffer(g3, "quad")
    IN  DrawTriangleFan(g4, size, r)

\* DrawLayers iterating the layers back to front
RECURSIVE DrawLayersReversed(_, _, _, _)
DrawLayersReversed(g, layers, size, r) ==
    IF layers = <<>> THEN g
    ELSE DrawLayersReversed(DrawLayer(g, layers[Len(layers)], size, r),
                            SubSeq(layers, 1, Len(layers) - 1), size, r)

RECURSIVE DrawLayers(_, _, _, _)
DrawLayers(g, layers, size, r) ==
    IF layers = <<>> THEN g
    ELSE DrawLayers(DrawLayer(g, Head(layers), size, r), Tail(layers), size, r)

\* the final blit of Engine::render
DrawFinal(g, scale, size, r) ==
    LET g2 == BindTarget(g, "window")
        g3 == BindTexture(g2, "framebuffer")
        g4 == BindShader(g3, "final_shader")
        g5 == SetUniformScale(g4, scale)
        g6 == SetUniformTexture(g5, 0)
        g7 == BindVertexBuffer(g6, "quad")
    IN  DrawTriangleFan(g7, size, r)

\* RenderGfx blitting the framebuffer to the window before compositing
RenderGfxBlitFirst(g, layers, size, r) ==
    LET scale == RenderScale(size, r)
        g0 == DrawFinal([g EXCEPT !.draws = <<>>], scale, size, r)
        g1 == BindTarget(g0, "framebuffer")
    IN  DrawLayers(g1, layers, size, r)

\* Engine::render on the graphics context
RenderGfx(g, layers, size, r) ==
    LET scale == RenderScale(size, r)
        g0 == BindTarget([g EXCEPT !.draws = <<>>], "framebuffer")
        g1 == DrawLayers(g0, layers, size, r)
    IN  DrawFinal(g1, scale, size, r)

\* HandleRunning whose catch-all arm sets the flag
HandleRunningRearm(run, event) == event.kind # "Close"

\* Window::handle: the value of `running` after the event
HandleRunning(run, event) == IF event.kind = "Close" THEN FALSE ELSE run

Events == [kind : {"Close", "Key"}, r : {<<0, 0>>}] \cup [kind : {"Resize"}, r : Sizes]

\* System::flush: every pending event is dispatched to the window; a resize
\* sets the rectangle through set_rect before the event is handled
RECURSIVE Flush(_, _)
Flush(w, evs) ==
    IF evs = <<>> THEN w
    ELSE LET e == Head(evs)
             r1 == IF e.kind = "Resize" THEN e.r ELSE w.r
         IN  Flush([run |-> HandleRunning(w.run, e), r |-> r1,
                    g |-> ResizeSurface(w.g, w.r, r1)], Tail(evs))

\* lastOp of an operation without arguments
NoOp(name) ==
    [op |-> name, ev |-> "", layers |-> <<>>, rep |-> FALSE, resized |-> FALSE]

NoDraws(g) == [g EXCEPT !.draws = <<>>]

Handle(event) ==
    /\ running' = HandleRunning(running, event)
    /\ gfx' = NoDraws(gfx)
    /\ lastOp' = [op |-> "handle", ev |-> event.kind, layers |-> <<>>, rep |-> FALSE,
                  resized |-> FALSE]
    /\ UNCHANGED <<core_r, fbsize>>

\* set_rect stores the rectangle; the window system calls it when the window
\* has been resized, so the surface changes with it
SetRect(r) ==
    /\ core_r' = r
    /\ gfx' = NoDraws(ResizeSurface(gfx, core_r, r))
    /\ lastOp' = [op |-> "set_rect", ev |-> "", layers |-> <<>>, rep |-> FALSE,
                  resized |-> (r # core_r)]
    /\ UNCHANGED <<running, fbsize>>

\* Engine::update: system.flush(&windows) with this window alone; the draw
\* log is that of the most recent operation, and update draws nothing
Update(evs) ==
    LET w == Flush([run |-> running, r |-> core_r, g |-> gfx], evs)
    IN  /\ running' = w.run
        /\ core_r' = w.r
        /\ gfx' = NoDraws(w.g)
        /\ lastOp' = [op |-> "update", ev |-> "", layers |-> <<>>, rep |-> FALSE,
                      resized |-> (w.r # core_r)]
        /\ UNCHANGED fbsize

Render(layers) ==
    /\ gfx' = RenderGfx(gfx, layers, fbsize, core_r)
    /\ lastOp' = [op |-> "render", ev |-> "", layers |-> layers,
                  rep |-> (lastOp.op = "render" /\ lastOp.layers = layers),
                  resized |-> lastOp.resized]
    /\ UNCHANGED <<running, core_r, fbsize>>

Present ==
    /\ gfx' = NoDraws(gfx)
    /\ lastOp' = NoOp("present")
    /\ UNCHANGED <<running, core_r, fbsize>>

loopVars == <<pc, frameCalls>>
newVars == <<failing, newResult>>
pureVars == <<arg, res>>

\* the state Engine::new leaves when it succeeds
EngineInit ==
    \E winsize \in WinSizes, size \in FbSizes :
        LET e == EngineNew({}, winsize, size)
        IN  /\ running = e.running
            /\ core_r = e.r
            /\ fbsize = e.size
            /\ gfx = NewGraphics(size)
            /\ lastOp = NoOp("new")

Init ==
    /\ EngineInit
    /\ pc = "api" /\ frameCalls = <<>>
    /\ failing = {} /\ newResult = <<>>
    /\ arg = <<>> /\ res = <<>>

ApiHandle == \E e \in Events : Handle(e) /\ UNCHANGED <<loopVars, newVars, pureVars>>
ApiSetRect == \E r \in Sizes : SetRect(r) /\ UNCHANGED <<loopVars, newVars, pureVars>>
ApiUpdate ==
    \E evs \in SeqsUpTo(Events, 1) :
        Update(evs) /\ UNCHANGED <<loopVars, newVars, pureVars>>
ApiRender ==
    \E ls \in SeqsUpTo(Images, MaxLayers) :
        Render(ls) /\ UNCHANGED <<loopVars, newVars, pureVars>>
ApiPresent == Present /\ UNCHANGED <<loopVars, newVars, pureVars>>

Next == ApiHandle \/ ApiSetRect \/ ApiUpdate \/ ApiRender \/ ApiPresent

Spec == Init /\ [][Next]_vars

----------------------------------------------------------------------------
(* main() of examples/test-image.rs *)

MainLayers == <<1>>

Call(name) == [call |-> name, layer |-> 0, running |-> running]

MainWhile ==
    /\ pc = "while"
    /\ IF running
       THEN pc' = "update" /\ frameCalls' = <<>>
       ELSE pc' = "exit" /\ UNCHANGED frameCalls
    /\ UNCHANGED <<running, core_r, fbsize, gfx, lastOp, newVars, pureVars>>

MainUpdate ==
    /\ pc = "update"
    /\ \E evs \in SeqsUpTo(Events, MaxEvents) : Update(evs)
    /\ pc' = "render"
    /\ frameCalls' = Append(frameCalls, Call("update"))
    /\ UNCHANGED <<newVars, pureVars>>

MainRender ==
    /\ pc = "render"
    /\ Render(MainLayers)
    /\ pc' = "present"
    /\ frameCalls' = Append(frameCalls, Call("render"))
    /\ UNCHANGED <<newVars, pureVars>>

MainPresent ==
    /\ pc = "present"
    /\ Present
    /\ pc' = "while"
    /\ frameCalls' = Append(frameCalls, Call("present"))
    /\ UNCHANGED <<newVars, pureVars>>

InitLoop ==
    /\ EngineInit
    /\ pc = "while" /\ frameCalls = <<>>
    /\ failing = {} /\ newResult = <<>>
    /\ arg = <<>> /\ res = <<>>

NextLoop == MainWhile \/ MainUpdate \/ MainRender \/ MainPresent

SpecLoop == InitLoop /\ [][NextLoop]_vars

----------------------------------------------------------------------------
(* Construction under allocation failures *)

NoEngine ==
    /\ running = FALSE
    /\ core_r = <<0, 0>>
    /\ fbsize = <<1, 1>>
    /\ gfx = NewGraphics(<<1, 1>>)
    /\ lastOp = NoOp("none")
    /\ pc = "api" /\ frameCalls = <<>>

InitNew ==
    /\ NoEngine
    /\ failing \in SUBSET Failures
    /\ newResult = [engine |-> "none", window |-> FALSE, layer |-> "none", draws |-> 0]
    /\ arg = <<>> /\ res = <<>>

NewEngine ==
    /\ newResult.engine = "none"
    /\ \E winsize \in WinSizes, size \in FbSizes :
        LET e == EngineNew(failing, winsize, size)
        IN  /\ newResult' = [newResult EXCEPT !.engine = e.status, !.window = e.window]
            /\ IF e.status = "Ok"
               THEN /\ running' = e.running
                    /\ core_r' = e.r
                    /\ fbsize' = e.size
                    /\ gfx' = NewGraphics(e.size)
                    /\ lastOp' = NoOp("new")
               ELSE UNCHANGED <<running, core_r, fbsize, gfx, lastOp>>
    /\ UNCHANGED <<loopVars, failing, pureVars>>

NewLayer ==
    /\ newResult.engine = "Ok"
    /\ newResult.layer = "none"
    /\ \E image \in Images :
        LET l == NewFromMat(failing, image, fbsize)
        IN  newResult' = [newResult EXCEPT !.layer = l.status, !.draws = l.draws]
    /\ UNCHANGED <<running, core_r, fbsize, gfx, lastOp, loopVars, failing, pureVars>>

NextNew == NewEngine \/ NewLayer

SpecNew == InitNew /\ [][NextNew]_vars

----------------------------------------------------------------------------
(* The letterbox scale as a function of the two sizes *)

Dims == 1 .. MaxDim

InitScale ==
    /\ NoEngine
    /\ failing = {} /\ newResult = <<>>
    /\ arg \in [Ww : Dims, Hw : Dims, Wv : Dims, Hv : Dims]
    /\ res = <<>>

ApplyScale ==
    /\ res = <<>>
    /\ res' = RenderScale(<<arg.Wv, arg.Hv>>, <<arg.Ww, arg.Hw>>)
    /\ UNCHANGED <<running, core_r, fbsize, gfx, lastOp, loopVars, newVars, arg>>

SpecScale == InitScale /\ [][ApplyScale]_vars

----------------------------------------------------------------------------
(* map_fs: the tile-atlas fragment shader *)

TILES_PER_ATLAS == 32

\* tsc with the atlas row and column exchanged
TileCellSwapped(tile_index) ==
    [x |-> tile_index \div TILES_PER_ATLAS, y |-> tile_index % TILES_PER_ATLAS]

\* tsc = vec2(tile_index % TILES_PER_ATLAS, tile_index / TILES_PER_ATLAS)
TileCell(tile_index) ==
    [x |-> tile_index % TILES_PER_ATLAS, y |-> tile_index \div TILES_PER_ATLAS]

\* floor(tc) and fract(tc) of a coordinate given in units of 1/FracDen
Floor(t) == t \div FracDen
Fract(t) == t % FracDen

\* map_fs from the sampled tile index on: tsc, ftsc = tsc + fract(tc) and
\* ntsc = ftsc / TILES_PER_ATLAS; ftsc is kept in units of 1/FracDen
MapFs(tile_index, tc) ==
    LET tsc == TileCell(tile_index)
        ftsc == [x |-> tsc.x * FracDen + Fract(tc[1]),
                 y |-> tsc.y * FracDen + Fract(tc[2])]
    IN  [cell |-> <<Floor(tc[1]), Floor(tc[2])>>,
         tsc |-> tsc,
         ntsc |-> [x |-> Fin(ftsc.x, FracDen * TILES_PER_ATLAS),
                   y |-> Fin(ftsc.y, FracDen * TILES_PER_ATLAS)]]

TcRange == 0 .. TcTiles * FracDen - 1

InitTile ==
    /\ NoEngine
    /\ failing = {} /\ newResult = <<>>
    /\ arg \in [tile_index : 0 .. MaxTileIndex, tc : TcRange \X TcRange]
    /\ res = <<>>

ApplyMapFs ==
    /\ res = <<>>
    /\ res' = MapFs(arg.tile_index, arg.tc)
    /\ UNCHANGED <<running, core_r, fbsize, gfx, lastOp, loopVars, newVars, arg>>

SpecTile == InitTile /\ [][ApplyMapFs]_vars

----------------------------------------------------------------------------
(* Properties *)

RatEq(a, n, d) == a.k = "fin" /\ a.n * d = n * a.d
WindowDraws(draws) == {i \in 1 .. Len(draws) : draws[i].target = "window"}

\* C1: running is true after a successful Engine::new; a Close event makes it
\* false; no engine operation takes it from false back to true; an event
\* other than Close leaves it as it was.
C1_RunningIrreversible ==
    /\ (lastOp.op = "new" => running)
    /\ [][ /\ (~running => ~running')
           /\ (lastOp'.op = "handle" /\ lastOp'.ev = "Close" => ~running')
           /\ (lastOp'.op = "handle" /\ lastOp'.ev # "Close" => running' = running)
         ]_vars

C1_Witness ==
    /\ ~running
    /\ lastOp.op = "handle" /\ lastOp.ev = "Key"
    /\ gfx.fb # [p \in Pixels(fbsize) |-> Blank]

\* C2: a render with a window width or height of zero divides by no zero,
\* computes no scale from the zero dimension and issues no draw that targets
\* the window.
C2_ZeroWindowSkipsBlit ==
    (lastOp.op = "render" /\ (core_r[1] = 0 \/ core_r[2] = 0)) =>
        /\ WindowDraws(gfx.draws) = {}
        /\ gfx.u_scale.x.k = "fin" /\ gfx.u_scale.y.k = "fin"

\* C3: render issues one fan-draw into the framebuffer per layer, the i-th
\* sampling the i-th layer of the supplied sequence, then exactly one
\* fan-draw into the window that samples the framebuffer; afterwards every
\* framebuffer pixel holds the content of the last layer of the sequence.
C3_LayerOrder ==
    lastOp.op = "render" =>
        LET n == Len(lastOp.layers)
            d == gfx.draws
        IN  /\ Len(d) = n + 1
            /\ \A i \in 1 .. n :
                /\ d[i].target = "framebuffer"
                /\ d[i].texture = <<"layer", lastOp.layers[i]>>
            /\ d[n + 1].target = "window"
            /\ d[n + 1].texture = "framebuffer"
            /\ WindowDraws(d) = {n + 1}
            /\ n >= 1 =>
                \A p \in Pixels(fbsize) :
                    gfx.fb[p] = LayerFramebuffer(lastOp.layers[n], fbsize)[p]

C3_Witness ==
    /\ lastOp.op = "render"
    /\ Len(lastOp.layers) = 2
    /\ lastOp.layers[1] # lastOp.layers[2]
    /\ gfx.fb = LayerFramebuffer(lastOp.layers[2], fbsize)
    /\ gfx.fb # LayerFramebuffer(lastOp.layers[1], fbsize)

\* C4: after a render with a non-zero window size the u_scale uniform is the
\* letterbox scale of the window rectangle of that call: (Av/Aw, 1) when
\* Aw > Av and (1, Aw/Av) otherwise, with Av = Wv/Hv and Aw = Ww/Hw.
C4_ScaleOfCurrentRect ==
    (lastOp.op = "render" /\ core_r[1] > 0 /\ core_r[2] > 0) =>
        LET Ww == core_r[1]
            Hw == core_r[2]
            Wv == fbsize[1]
            Hv == fbsize[2]
        IN  IF Ww * Hv > Wv * Hw
            THEN RatEq(gfx.u_scale.x, Wv * Hw, Hv * Ww) /\ RatEq(gfx.u_scale.y, 1, 1)
            ELSE RatEq(gfx.u_scale.x, 1, 1) /\ RatEq(gfx.u_scale.y, Ww * Hv, Hw * Wv)

C4_Witness ==
    /\ lastOp.op = "render" /\ lastOp.resized
    /\ core_r[1] > 0 /\ core_r[2] > 0
    /\ core_r[1] * fbsize[2] > fbsize[1] * core_r[2]
    /\ gfx.u_scale.x # One

\* C5: for positive window and framebuffer dimensions both components of the
\* letterbox scale lie in (0, 1], at least one of them is 1, and
\* scale.x * Ww * Hv = scale.y * Hw * Wv.
C5_LetterboxFits ==
    res # <<>> =>
        /\ res.x.k = "fin" /\ res.y.k = "fin"
        /\ res.x.n > 0 /\ res.x.n <= res.x.d
        /\ res.y.n > 0 /\ res.y.n <= res.y.d
        /\ (RatEq(res.x, 1, 1) \/ RatEq(res.y, 1, 1))
        /\ res.x.n * arg.Ww * arg.Hv * res.y.d = res.y.n * arg.Hw * arg.Wv * res.x.d

C5_Witness ==
    /\ res # <<>>
    /\ arg.Ww * arg.Hv < arg.Wv * arg.Hw
    /\ res.y.n < res.y.d

\* C6: for a tile index below 32 * 32 the atlas cell is row = index div 32,
\* col = index mod 32, both below 32, with row * 32 + col = index (0 -> (0,0),
\* 33 -> (1,1), 1023 -> (31,31)), and the normalized atlas coordinate lies
\* inside that cell.
C6_TileDecode ==
    (res # <<>> /\ arg.tile_index < TILES_PER_ATLAS * TILES_PER_ATLAS) =>
        LET col == res.tsc.x
            row == res.tsc.y
            N == TILES_PER_ATLAS
        IN  /\ 0 <= row /\ row < N /\ 0 <= col /\ col < N
            /\ row * N + col = arg.tile_index
            /\ (arg.tile_index = 0 => row = 0 /\ col = 0)
            /\ (arg.tile_index = 33 => row = 1 /\ col = 1)
            /\ (arg.tile_index = 1023 => row = 31 /\ col = 31)
            /\ col * res.ntsc.x.d <= res.ntsc.x.n * N
            /\ res.ntsc.x.n * N < (col + 1) * res.ntsc.x.d
            /\ row * res.ntsc.y.d <= res.ntsc.y.n * N
            /\ res.ntsc.y.n * N < (row + 1) * res.ntsc.y.d

C6_Witness ==
    /\ res # <<>>
    /\ arg.tile_index = 33
    /\ res.tsc = [x |-> 1, y |-> 1]
    /\ Fract(arg.tc[1]) > 0 /\ Floor(arg.tc[2]) > 0

\* C7: a render that directly follows a render with the same layer sequence
\* and the same window size leaves the window surface and the framebuffer as
\* the first render left them.
C7_RenderIdempotent ==
    [][ (lastOp.op = "render" /\ lastOp'.op = "render"
            /\ lastOp'.layers = lastOp.layers /\ core_r' = core_r)
        => (gfx'.win = gfx.win /\ gfx'.fb = gfx.fb) ]_vars

C7_Witness ==
    /\ lastOp.op = "render" /\ lastOp.rep
    /\ \E p \in Pixels(core_r) : gfx.win[p] # Blank
    /\ \E p \in Pixels(core_r) : gfx.win[p] = Blank

\* C8: a failed allocation in Engine::new yields Err(EngineError::Generic) and
\* no window; a failed allocation in StaticLayer::new_from_mat yields
\* Err(EngineError::Generic) and no draw.
C8_ConstructionFailuresTyped ==
    /\ (newResult.engine # "none" /\
        failing \cap {"framebuffer", "layer_shader", "final_shader", "static_shader",
                      "map_shader", "quad_vertexbuffer"} # {})
        => (newResult.engine = "Err(EngineError::Generic)" /\ ~newResult.window)
    /\ (newResult.layer # "none" /\ failing \cap {"layer_framebuffer", "texture"} # {})
        => (newResult.layer = "Err(EngineError::Generic)" /\ newResult.draws = 0)

\* C9: when Engine::render has composited a frame, Layer::render of every
\* layer of the sequence was run exactly once after that frame's update.
C9_LayerRenderEachFrame ==
    pc = "present" =>
        \A l \in 1 .. Len(MainLayers) :
            Cardinality({i \in 1 .. Len(frameCalls) :
                /\ frameCalls[i].call = "layer.render"
                /\ frameCalls[i].layer = l}) = 1

\* C10: a frame issues update, render and present once each in that order,
\* and no update, render or present is issued while running is false.
C10_NoCallsAfterClose ==
    /\ \A i \in 1 .. Len(frameCalls) :
        /\ frameCalls[i].call = <<"update", "render", "present">>[i]
        /\ frameCalls[i].running
    /\ Len(frameCalls) <= 3

====
